---- MODULE Spec2Model ----
(***************************************************************************)
(* Model of the ballistic profile store of Hunt Pro:                       *)
(*   src/ballistics.py  BallisticProfile, BallisticProfileStorage          *)
(*   src/migrations.py  migrate_ballistic_profile_store and its helpers    *)
(*   src/logger.py      HuntProLogger._log / LoggableMixin                 *)
(*                                                                         *)
(* The disk is modelled as the content of profiles.json plus the files of  *)
(* the backup directory.  Time has two resolutions: `now` is the fine      *)
(* clock behind isoformat() timestamps and file mtimes, `sec` is the       *)
(* one-second clock behind the strftime("%Y%m%d-%H%M%S") file names.       *)
(***************************************************************************)
EXTENDS Integers, Sequences, FiniteSets, TLC

VARIABLES
    file,         \* content of storage_dir/profiles.json
    backups,      \* files of storage_dir/backups matching <stem>-*.json
    now,          \* fine-grained clock (isoformat timestamps, st_mtime)
    sec,          \* one-second clock (backup file name timestamps)
    constructed,  \* a BallisticProfileStorage instance exists
    max_backups,  \* self.max_backups of the instance(s) on this directory
    extWrites,    \* number of writes to profiles.json by other programs
    last,         \* observation of the last completed operation
    pc,           \* concurrent writers: position inside save_profile
    loc,          \* concurrent writers: local variables of save_profile
    calc          \* the call in progress or last made on the dataclasses and calculator

vars == <<file, backups, now, sec, constructed, max_backups, extWrites, last, pc, loc, calc>>

----------------------------------------------------------------------------
(* Bounds of the model *)

MaxName == 2          \* profile names are 1..MaxName, ordered like strings
MaxVal == 1           \* distinct values of the remaining profile fields
MaxLen == 2           \* longest profile list in an external or import file
MaxNow == 3           \* writes to profiles.json in one behaviour
MaxSec == 1           \* last value of the one-second clock
MaxBackupsArg == 2    \* largest max_backups argument given to the store
MaxVersion == 1       \* largest version marker in an external document
MaxExt == 1           \* writes to profiles.json by other programs

(* Program constants *)

SCHEMA_VERSION == 1   \* BALLISTIC_PROFILE_SCHEMA_VERSION

Names == 1..MaxName
Vals == 1..MaxVal
Versions == 0..MaxVersion
NoTime == -1          \* a timestamp key that is missing from a dict
NoVer == -1           \* migrated_from_version key missing

----------------------------------------------------------------------------
(* Profiles *)

\* A profile dict as found in a JSON file.  `val` stands for the ammunition,
\* environment, range and notes fields; `ok` is FALSE for a dict from which
\* BallisticProfile.from_dict raises (ammunition or environment missing,
\* unsupported drag model).
Entry(n, v, c, u, k) == [name |-> n, val |-> v, created_at |-> c, updated_at |-> u, ok |-> k]

\* Faulty variant of from_dict: missing timestamps are left missing.
from_dict_no_defaults(e, t) ==
    [name |-> e.name, val |-> e.val, created_at |-> e.created_at, updated_at |-> e.updated_at]

\* BallisticProfile.from_dict: missing timestamps default to now().
from_dict(e, t) ==
    [name |-> e.name, val |-> e.val,
     created_at |-> IF e.created_at = NoTime THEN t ELSE e.created_at,
     updated_at |-> IF e.updated_at = NoTime THEN t ELSE e.updated_at]

\* BallisticProfile.to_dict
to_dict(p) == Entry(p.name, p.val, p.created_at, p.updated_at, TRUE)

\* BallisticProfile.touch
touch(p, t) == [p EXCEPT !.updated_at = t]

----------------------------------------------------------------------------
(* Files *)

\* Content of profiles.json (or of a copy of it).  kind is
\*   "absent"   the file does not exist
\*   "corrupt"  not valid JSON (also: a truncated or partly written file)
\*   "doc"      a JSON object with a "profiles" list
\*   "list"     a bare JSON list of profile dicts (legacy layout)
\*   "nolist"   a JSON object without a "profiles" or "entries" list
\* mtime is st_mtime; shutil.copy2 copies it together with the content.
File(k, v, ps, mf, ma, ua, mt) ==
    [kind |-> k, version |-> v, profiles |-> ps, migrated_from_version |-> mf,
     migrated_at |-> ma, updated_at |-> ua, mtime |-> mt]

Absent == File("absent", 0, <<>>, NoVer, NoTime, NoTime, 0)
Corrupt(t) == File("corrupt", 0, <<>>, NoVer, NoTime, NoTime, t)
NoList(t) == File("nolist", 0, <<>>, NoVer, NoTime, NoTime, t)
LegacyList(ps, t) == File("list", 0, ps, NoVer, NoTime, NoTime, t)
Doc(v, ps, mf, ma, ua, t) == File("doc", v, ps, mf, ma, ua, t)

exists(f) == f.kind # "absent"

\* A file of the backup directory.  Its name is
\*   rotating   profiles-<sec>.json
\*   corrupted  profiles-corrupted-<sec>.json
\*   migration  profiles-v<ver>-ballistics-backup-<sec>.json
BackupFile(k, v, s, f) == [kind |-> k, ver |-> v, sec |-> s, content |-> f]
BackupName(b) == <<b.kind, b.ver, b.sec>>

\* shutil.copy2(source, backup_path): a file of the same name is replaced.
copy2(bs, k, v, s, f) ==
    {b \in bs : BackupName(b) # <<k, v, s>>} \cup {BackupFile(k, v, s, f)}

\* backup_dir.glob("profiles-*.json")
glob(bs) == {b \in bs : b.kind \in {"rotating", "corrupted", "migration"}}

Min(a, b) == IF a < b THEN a ELSE b
Max(a, b) == IF a > b THEN a ELSE b

\* _prune_backups: sort by st_mtime, newest first, unlink everything after
\* the first max_backups.  Files of equal mtime keep the directory order of
\* glob, which the program does not control: every such order is possible.
\* The result is the set of possible directory contents after pruning.
_prune_backups(bs, m) ==
    LET g == glob(bs)
    IN  {(bs \ g) \cup keep : keep \in
            {k \in SUBSET g :
                /\ Cardinality(k) = Min(m, Cardinality(g))
                /\ \A x \in k : \A y \in g \ k : x.content.mtime >= y.content.mtime}}

\* BallisticProfileStorage._create_backup: possible backup directories.
_create_backup(bs, f, s, m, copyFails) ==
    IF ~exists(f) \/ copyFails THEN {bs}
    ELSE _prune_backups(copy2(bs, "rotating", 0, s, f), m)

\* Faulty variant of _preserve_corrupted_store: no copy is written.
_preserve_corrupted_store_skip(bs, f, s, copyFails) == bs

\* BallisticProfileStorage._preserve_corrupted_store
_preserve_corrupted_store(bs, f, s, copyFails) ==
    IF ~exists(f) \/ copyFails THEN bs
    ELSE copy2(bs, "corrupted", 0, s, f)

----------------------------------------------------------------------------
(* Logging *)

\* HuntProLogger._log evaluates `category.name if category else 'GENERAL'`.
\* category is "None" when the caller passes none, "LogCategory" for an enum
\* member and "str" for a plain string, which has no attribute `name`.
_log(category) ==
    IF category = "None" \/ category = "LogCategory" THEN "none" ELSE "AttributeError"

\* self.log_info(..., category="DATA", ...) as written in the storage class
log_info_DATA == _log("str")

\* self.log_warning(..., exception=exc) and self.log_error(..., exception=exc)
log_warning == _log("None")

----------------------------------------------------------------------------
(* Reading and writing the store *)

EmptyMap == [n \in {} |-> n]
\* Faulty variant of PutMap: the mapping is replaced by the one entry.
PutMap_alone(m, n, p) == [x \in {n} |-> p]

PutMap(m, n, p) == [x \in DOMAIN m \cup {n} |-> IF x = n THEN p ELSE m[x]]
DelMap(m, n) == [x \in DOMAIN m \ {n} |-> m[x]]

\* the loop of load_profiles: malformed entries are skipped, a later entry
\* of the same name replaces an earlier one
RECURSIVE LoadEntries(_, _, _)
LoadEntries(es, t, acc) ==
    IF es = <<>> THEN acc
    ELSE LET e == Head(es)
         IN  LoadEntries(Tail(es), t,
                         IF e.ok THEN PutMap(acc, e.name, from_dict(e, t)) ELSE acc)

\* BallisticProfileStorage.load_profiles: the exception raised ("none" when
\* it returns), the mapping returned and the backup directory afterwards.
load_profiles(f, bs, s, t, copyFails) ==
    CASE f.kind = "absent" ->
            [raised |-> "none", profiles |-> EmptyMap, backups |-> bs]
      [] f.kind = "corrupt" ->
            [raised |-> log_warning, profiles |-> EmptyMap,
             backups |-> _preserve_corrupted_store(bs, f, s, copyFails)]
      [] f.kind = "doc" ->
            [raised |-> "none", profiles |-> LoadEntries(f.profiles, t, EmptyMap),
             backups |-> bs]
      [] f.kind = "nolist" ->
            [raised |-> "none", profiles |-> EmptyMap, backups |-> bs]
      [] f.kind = "list" ->   \* payload.get on a list
            [raised |-> "AttributeError", profiles |-> EmptyMap, backups |-> bs]

\* sorted(profiles.keys())
RECURSIVE sorted(_)
sorted(S) ==
    IF S = {} THEN <<>>
    ELSE LET m == CHOOSE x \in S : \A y \in S : x <= y
         IN  <<m>> \o sorted(S \ {m})

\* the payload built by _write_profiles, as the file it becomes
Payload(profiles, t) ==
    LET ks == sorted(DOMAIN profiles)
    IN  Doc(SCHEMA_VERSION, [i \in 1..Len(ks) |-> to_dict(profiles[ks[i]])],
            NoVer, NoTime, t, t)

\* BallisticProfileStorage._write_profiles: the possible outcomes, each the
\* exception raised, the new profiles.json and the new backup directory.
\* open("w") truncates the file before json.dump writes it, so a failed
\* write leaves a file that is not valid JSON.
_write_profiles(f, bs, profiles, s, t, m, copyFails, writeFails) ==
    {[raised |-> IF writeFails THEN "OSError" ELSE "none",
      file |-> IF writeFails THEN Corrupt(t) ELSE Payload(profiles, t),
      backups |-> nb] : nb \in _create_backup(bs, f, s, m, copyFails)}

----------------------------------------------------------------------------
(* Migration on construction *)

NoOutcome == [some |-> FALSE, previous_version |-> 0, new_version |-> 0, backup_path |-> FALSE]
MigrationOutcome(pv, nv, bp) ==
    [some |-> TRUE, previous_version |-> pv, new_version |-> nv, backup_path |-> bp]

\* normalized_profiles = [dumper(loader(entry)) for entry in raw_profiles]
normalized_profiles(raw, t) == [i \in 1..Len(raw) |-> to_dict(from_dict(raw[i], t))]

\* requires_migration = current_version != target_version
requires_migration(current_version, target_version) == current_version # target_version

\* Faulty variant of requires_rewrite: every open rewrites the store.
requires_rewrite_always(current_version, target_version, raw, normalized) == TRUE

\* requires_rewrite = requires_migration or list(raw_profiles) != normalized_profiles
requires_rewrite(current_version, target_version, raw, normalized) ==
    requires_migration(current_version, target_version) \/ raw # normalized

\* migrations.migrate_ballistic_profile_store with loader = from_dict and
\* dumper = to_dict: the exception raised, the outcome returned, and the
\* store file and backup directory afterwards.
migrate_ballistic_profile_store(f, bs, s, t, target_version, copyFails, writeFails) ==
    LET unchanged(r) == [raised |-> r, outcome |-> NoOutcome, file |-> f, backups |-> bs]
        current_version == IF f.kind = "doc" THEN f.version ELSE 0
        raw_profiles == f.profiles
        normalized == normalized_profiles(raw_profiles, t)
        migrating == requires_migration(current_version, target_version)
        rewriting == requires_rewrite(current_version, target_version, raw_profiles, normalized)
        payload ==
            Doc(target_version, normalized,
                IF migrating THEN current_version ELSE f.migrated_from_version,
                IF migrating THEN t ELSE f.migrated_at,
                f.updated_at, t)
        \* migrations._create_backup: the copy is not guarded by try/except
        withBackup == copy2(bs, "migration", current_version, s, f)
    IN  CASE f.kind = "absent" -> unchanged("none")
          [] f.kind = "corrupt" -> unchanged("MigrationError")
          [] f.kind = "nolist" -> unchanged("MigrationError")
          [] f.kind \in {"doc", "list"} ->
                IF \E i \in 1..Len(raw_profiles) : ~raw_profiles[i].ok
                THEN unchanged("ValueError")     \* loader(entry) raises
                ELSE IF ~rewriting THEN unchanged("none")
                ELSE IF copyFails THEN unchanged("OSError")
                ELSE IF writeFails   \* _write_json_atomic: only the .tmp file is touched
                THEN [raised |-> "OSError", outcome |-> NoOutcome,
                      file |-> f, backups |-> withBackup]
                ELSE [raised |-> _log("None"),
                      outcome |-> MigrationOutcome(current_version, target_version, TRUE),
                      file |-> payload, backups |-> withBackup]

\* Faulty variant of _apply_migrations: MigrationError is logged, not raised.
_apply_migrations_swallow(f, bs, s, t, copyFails, writeFails) ==
    LET m == migrate_ballistic_profile_store(f, bs, s, t, SCHEMA_VERSION, copyFails, writeFails)
    IN  [m EXCEPT !.raised =
            IF m.raised = "MigrationError" THEN "none"
            ELSE IF m.raised # "none" THEN m.raised
            ELSE IF m.outcome.some THEN log_info_DATA ELSE "none"]

\* BallisticProfileStorage._apply_migrations: MigrationError is logged and
\* re-raised; a truthy outcome is logged with category="DATA".
_apply_migrations(f, bs, s, t, copyFails, writeFails) ==
    LET m == migrate_ballistic_profile_store(f, bs, s, t, SCHEMA_VERSION, copyFails, writeFails)
    IN  [m EXCEPT !.raised =
            IF m.raised # "none" THEN m.raised
            ELSE IF m.outcome.some THEN log_info_DATA ELSE "none"]

----------------------------------------------------------------------------
(* Import *)

NoReport == [imported |-> <<>>, skipped |-> <<>>, overwritten |-> <<>>]

\* the loop of import_profiles over payload["profiles"]
RECURSIVE ImportLoop(_, _, _, _, _)
ImportLoop(es, existing, report, overwrite, t) ==
    IF es = <<>> THEN [raised |-> "none", existing |-> existing, report |-> report]
    ELSE LET e == Head(es)
             profile == from_dict(e, t)
         IN  IF ~e.ok
             THEN [raised |-> "ValueError", existing |-> existing, report |-> report]
             ELSE IF e.name \in DOMAIN existing /\ ~overwrite
             THEN ImportLoop(Tail(es), existing,
                             [report EXCEPT !.skipped = Append(@, e.name)], overwrite, t)
             ELSE ImportLoop(Tail(es), PutMap(existing, e.name, touch(profile, t)),
                             IF e.name \in DOMAIN existing
                             THEN [report EXCEPT !.overwritten = Append(@, e.name)]
                             ELSE [report EXCEPT !.imported = Append(@, e.name)],
                             overwrite, t)

----------------------------------------------------------------------------
(* Inputs *)

NameSeqs == UNION {[1..k -> Names] : k \in 0..MaxLen}

\* profile lists written by another program: complete dicts, dicts of the
\* legacy layout (no timestamps), or complete dicts with a malformed last one
ExtProfiles(ns, flavour) ==
    [i \in 1..Len(ns) |->
        Entry(ns[i], 1,
              IF flavour = "legacy" THEN NoTime ELSE 0,
              IF flavour = "legacy" THEN NoTime ELSE 0,
              ~(flavour = "lastbad" /\ i = Len(ns)))]

\* the empty list and the lists of full length
ExtNameSeqs == {ns \in NameSeqs : Len(ns) \in {0, MaxLen}}
ExtLists(flavours) == {ExtProfiles(ns, fl) : ns \in ExtNameSeqs, fl \in flavours}

ExtFiles(t) ==
    {Corrupt(t), NoList(t)}
    \cup {LegacyList(ps, t) : ps \in ExtLists({"legacy"})}
    \cup {Doc(v, ps, NoVer, NoTime, 0, t) :
            v \in Versions, ps \in ExtLists({"norm", "legacy", "lastbad"})}

\* export files given to import_profiles; their profiles carry the value 0,
\* which no profile built by the caller of save_profile has
ImportSources ==
    {[i \in 1..Len(ns) |-> Entry(ns[i], 0, 0, 0, TRUE)] : ns \in NameSeqs}
    \cup {<<Entry(1, 0, 0, 0, FALSE)>>}

Writers == {1, 2}

----------------------------------------------------------------------------
(* Dataclasses and calculator: values *)

\* no call made yet
NoCalc == [op |-> "none"]

\* A Python number: its type and its value.  Python's == compares the
\* values, so 150 == 150.0; float(x) keeps the value and makes the type float.
Num(ty, v) == [ty |-> ty, v |-> v]
float(x) == Num("float", x.v)
NumEq(a, b) == a.v = b.v

\* str(x) as an f-string prints it: 150 is "150", 150.0 is "150.0"
str(x) == IF x.ty = "int" THEN ToString(x.v) ELSE ToString(x.v) \o ".0"

\* dict.get(key, default)
Get(d, key, default) == IF key \in DOMAIN d THEN d[key] ELSE default

\* class DragModel(Enum): the value of a member, and the member of a value
\* ("ValueError" when no member has the value)
DragModelMembers == {"G1", "G7", "CUSTOM"}
DragModel_value(m) == IF m = "CUSTOM" THEN "Custom" ELSE m
DragModel(v) ==
    IF \E m \in DragModelMembers : DragModel_value(m) = v
    THEN CHOOSE m \in DragModelMembers : DragModel_value(m) = v
    ELSE "ValueError"

\* EnvironmentalData(...); temperature stands for the six float fields,
\* which to_dict and from_dict all treat alike
EnvironmentalData(temperature, humidity) ==
    [temperature |-> temperature, humidity |-> humidity]

EnvironmentalData_to_dict(e) ==
    [temperature |-> float(e.temperature), humidity |-> float(e.humidity)]

EnvironmentalData_from_dict(d) ==
    EnvironmentalData(float(Get(d, "temperature", Num("float", 15))),
                      float(Get(d, "humidity", Num("float", 50))))

\* Ammunition(...) with __post_init__: an empty name becomes
\* f"{caliber} {bullet_weight}gr".  bullet_weight stands for the float
\* fields, which to_dict and from_dict all treat alike.
Ammunition(name, caliber, bullet_weight, drag_model) ==
    [name |-> IF name = "" THEN caliber \o " " \o str(bullet_weight) \o "gr" ELSE name,
     caliber |-> caliber, bullet_weight |-> bullet_weight, drag_model |-> drag_model]

Ammunition_to_dict(a) ==
    [name |-> a.name, caliber |-> a.caliber,
     bullet_weight |-> float(a.bullet_weight),
     drag_model |-> DragModel_value(a.drag_model)]

\* Ammunition.from_dict: [raised, value]
Ammunition_from_dict(d) ==
    LET drag_model == DragModel(Get(d, "drag_model", DragModel_value("G1")))
    IN  IF drag_model = "ValueError"
        THEN [raised |-> "ValueError", value |-> Ammunition("?", "", Num("float", 0), "G1")]
        ELSE [raised |-> "none",
              value |-> Ammunition(Get(d, "name", ""), Get(d, "caliber", ""),
                                   float(Get(d, "bullet_weight", Num("float", 0))),
                                   drag_model)]

\* BallisticProfile(...); zero_distance stands for zero_distance, max_range
\* and vital_zone_diameter
BallisticProfile(name, ammunition, environment, zero_distance, notes, created_at, updated_at) ==
    [name |-> name, ammunition |-> ammunition, environment |-> environment,
     zero_distance |-> zero_distance, notes |-> notes,
     created_at |-> created_at, updated_at |-> updated_at]

BallisticProfile_to_dict(p) ==
    [name |-> p.name,
     ammunition |-> Ammunition_to_dict(p.ammunition),
     environment |-> EnvironmentalData_to_dict(p.environment),
     zero_distance |-> float(p.zero_distance),
     notes |-> p.notes,
     created_at |-> p.created_at,
     updated_at |-> p.updated_at]

\* Faulty variant of BallisticProfile.from_dict: the timestamps of the
\* payload are ignored and the profile is stamped with the current time.
BallisticProfile_from_dict_restamp(d, t) ==
    LET a == Ammunition_from_dict(d.ammunition)
    IN  [raised |-> a.raised,
         value |-> BallisticProfile(d.name, a.value,
                                    EnvironmentalData_from_dict(d.environment),
                                    float(d.zero_distance), d.notes, t, t)]

\* BallisticProfile.from_dict at time t, for a payload that has the
\* ammunition and environment keys: [raised, value]
BallisticProfile_from_dict(d, t) ==
    LET a == Ammunition_from_dict(d.ammunition)
    IN  [raised |-> a.raised,
         value |-> BallisticProfile(Get(d, "name", "Unnamed Profile"), a.value,
                                    EnvironmentalData_from_dict(d.environment),
                                    float(Get(d, "zero_distance", Num("float", 100))),
                                    Get(d, "notes", ""),
                                    Get(d, "created_at", t),
                                    Get(d, "updated_at", t))]

\* dataclass __eq__: field by field with Python's ==
AmmunitionEq(a, b) ==
    /\ a.name = b.name
    /\ a.caliber = b.caliber
    /\ NumEq(a.bullet_weight, b.bullet_weight)
    /\ a.drag_model = b.drag_model
EnvironmentalDataEq(a, b) ==
    NumEq(a.temperature, b.temperature) /\ NumEq(a.humidity, b.humidity)
BallisticProfileEq(p, q) ==
    /\ p.name = q.name
    /\ AmmunitionEq(p.ammunition, q.ammunition)
    /\ EnvironmentalDataEq(p.environment, q.environment)
    /\ NumEq(p.zero_distance, q.zero_distance)
    /\ p.notes = q.notes
    /\ p.created_at = q.created_at
    /\ p.updated_at = q.updated_at

\* _load_drag_tables: (Mach number in hundredths, drag coefficient in 1e-4)
g1_table ==
    <<
      <<0, 2629>>, <<5, 2558>>, <<10, 2487>>, <<15, 2413>>, <<20, 2344>>, <<25, 2278>>,
      <<30, 2214>>, <<35, 2155>>, <<40, 2104>>, <<45, 2061>>, <<50, 2032>>, <<55, 2020>>,
      <<60, 2034>>, <<65, 2165>>, <<70, 2230>>, <<75, 2313>>, <<80, 2417>>, <<85, 2546>>,
      <<90, 2706>>, <<95, 2901>>, <<100, 3136>>, <<105, 3415>>, <<110, 3734>>, <<115, 4084>>,
      <<120, 4448>>, <<125, 4805>>, <<130, 5136>>, <<135, 5427>>, <<140, 5677>>, <<145, 5883>>,
      <<150, 6053>>, <<155, 6191>>, <<160, 6393>>, <<165, 6518>>, <<170, 6589>>, <<175, 6621>>,
      <<180, 6625>>, <<185, 6607>>, <<190, 6573>>, <<195, 6528>>, <<200, 6474>>, <<205, 6413>>,
      <<210, 6347>>, <<215, 6280>>, <<220, 6210>>, <<225, 6141>>, <<230, 6072>>, <<235, 6003>>,
      <<240, 5934>>, <<245, 5867>>, <<250, 5804>>, <<260, 5680>>, <<270, 5571>>, <<280, 5479>>,
      <<290, 5402>>, <<300, 5337>>, <<320, 5240>>, <<340, 5178>>, <<360, 5135>>, <<380, 5101>>,
      <<400, 5076>>, <<420, 5055>>, <<440, 5040>>, <<460, 5030>>, <<480, 5022>>, <<500, 5016>>
    >>

g7_table ==
    <<
      <<0, 1198>>, <<5, 1197>>, <<10, 1196>>, <<15, 1194>>, <<20, 1193>>, <<25, 1194>>,
      <<30, 1194>>, <<35, 1194>>, <<40, 1193>>, <<45, 1193>>, <<50, 1194>>, <<55, 1193>>,
      <<60, 1196>>, <<65, 1197>>, <<70, 1205>>, <<75, 1230>>, <<80, 1290>>, <<85, 1380>>,
      <<90, 1510>>, <<95, 1705>>, <<100, 2000>>, <<105, 2380>>, <<110, 2830>>, <<115, 3315>>,
      <<120, 3803>>, <<125, 4262>>, <<130, 4680>>, <<135, 5050>>, <<140, 5365>>, <<145, 5620>>,
      <<150, 5820>>, <<155, 5980>>, <<160, 6110>>, <<165, 6210>>, <<170, 6290>>, <<175, 6350>>,
      <<180, 6390>>, <<185, 6420>>, <<190, 6440>>, <<195, 6450>>, <<200, 6450>>, <<205, 6447>>,
      <<210, 6440>>, <<215, 6430>>, <<220, 6420>>, <<225, 6410>>, <<230, 6395>>, <<235, 6380>>,
      <<240, 6360>>, <<245, 6340>>, <<250, 6315>>, <<260, 6265>>, <<270, 6210>>, <<280, 6155>>,
      <<290, 6095>>, <<300, 6035>>, <<320, 5910>>, <<340, 5790>>, <<360, 5680>>, <<380, 5570>>,
      <<400, 5470>>, <<420, 5375>>, <<440, 5285>>, <<460, 5200>>, <<480, 5120>>, <<500, 5040>>
    >>

drag_tables == [G1 |-> g1_table, G7 |-> g7_table]

\* Faulty variant of get_drag_coefficient: outside the table the first or
\* last segment is extended instead of the boundary value being returned.
get_drag_coefficient_extrapolate(mach, drag_model) ==
    IF drag_model = "CUSTOM" THEN 500000
    ELSE LET table == drag_tables[DragModel_value(drag_model)]
             n == Len(table)
             i == IF mach <= table[1][1] THEN 1
                  ELSE IF mach >= table[n][1] THEN n - 1
                  ELSE CHOOSE k \in 1..(n - 1) :
                        /\ table[k][1] <= mach /\ mach <= table[k + 1][1]
                        /\ \A j \in 1..(k - 1) : ~(table[j][1] <= mach /\ mach <= table[j + 1][1])
         IN  table[i][2] * 100
             + ((table[i + 1][2] - table[i][2]) * 100 * (mach - table[i][1]))
                 \div (table[i + 1][1] - table[i][1])

\* BallisticsCalculator.get_drag_coefficient: mach in hundredths, the result
\* in 1e-6 (in which the interpolation between two table rows is exact)
get_drag_coefficient(mach, drag_model) ==
    IF drag_model = "CUSTOM" THEN 500000
    ELSE LET table == drag_tables[DragModel_value(drag_model)]
             n == Len(table)
         IN  IF mach <= table[1][1] THEN table[1][2] * 100
             ELSE IF mach >= table[n][1] THEN table[n][2] * 100
             ELSE LET i == CHOOSE k \in 1..(n - 1) :
                            /\ table[k][1] <= mach /\ mach <= table[k + 1][1]
                            /\ \A j \in 1..(k - 1) :
                                ~(table[j][1] <= mach /\ mach <= table[j + 1][1])
                  IN  table[i][2] * 100
                      + ((table[i + 1][2] - table[i][2]) * 100 * (mach - table[i][1]))
                          \div (table[i + 1][1] - table[i][1])

\* Lengths are in metres, drops in 1e-5 m, velocities in 1e-6 m/s; a division
\* rounds as \div does, where the program rounds to the nearest double.

Abs(x) == IF x < 0 THEN -x ELSE x

\* TrajectoryPoint, the fields in the order of the NamedTuple.  Energies are
\* in 1e-2 J, times in 1e-6 s, windage in 1e-5 m.
TrajectoryPoint(distance, drop, velocity, energy, time, windage) ==
    [distance |-> distance, drop |-> drop, velocity |-> velocity,
     energy |-> energy, time |-> time, windage |-> windage]

\* Faulty variant of _calculate_mpbr: the trajectory is scanned from the
\* nearest point.
RECURSIVE _calculate_mpbr_forward(_, _)
_calculate_mpbr_forward(trajectory, vital_zone_diameter) ==
    IF trajectory = <<>> THEN 0
    ELSE IF 2 * Abs(Head(trajectory).drop) <= vital_zone_diameter
         THEN Head(trajectory).distance
         ELSE _calculate_mpbr_forward(Tail(trajectory), vital_zone_diameter)

\* BallisticsCalculator._calculate_mpbr: scan reversed(trajectory) for the
\* first point with abs(drop) <= vital_zone_diameter / 2, else 0.0
RECURSIVE _calculate_mpbr(_, _)
_calculate_mpbr(trajectory, vital_zone_diameter) ==
    IF trajectory = <<>> THEN 0
    ELSE LET point == trajectory[Len(trajectory)]
         IN  IF 2 * Abs(point.drop) <= vital_zone_diameter
             THEN point.distance
             ELSE _calculate_mpbr(SubSeq(trajectory, 1, Len(trajectory) - 1),
                                  vital_zone_diameter)

\* AmmunitionDatabase._load_default_ammunition: name, caliber, bullet weight
\* and drag model of the 14 entries, in the order of the list
_load_default_ammunition ==
    <<Ammunition("Federal Gold Medal Match", ".308 Win", Num("float", 175), "G7"),
      Ammunition("Winchester Super-X", ".308 Win", Num("float", 150), "G1"),
      Ammunition("Hornady Precision Hunter", ".308 Win", Num("float", 178), "G7"),
      Ammunition("Federal Power-Shok", ".30-06", Num("float", 150), "G1"),
      Ammunition("Remington Core-Lokt", ".30-06", Num("float", 180), "G1"),
      Ammunition("Federal American Eagle", ".223 Rem", Num("float", 55), "G1"),
      Ammunition("Hornady V-MAX", ".223 Rem", Num("float", 55), "G1"),
      Ammunition("Black Hills Match", ".223 Rem", Num("float", 77), "G1"),
      Ammunition("Winchester Power-Point", ".270 Win", Num("float", 130), "G1"),
      Ammunition("Federal Premium", ".270 Win", Num("float", 150), "G1"),
      Ammunition("Federal Premium", ".300 Win Mag", Num("float", 180), "G1"),
      Ammunition("Nosler AccuBond", ".300 Win Mag", Num("float", 200), "G1"),
      Ammunition("Hornady Precision Hunter", "6.5 Creedmoor", Num("float", 143), "G7"),
      Ammunition("Federal Gold Medal Match", "6.5 Creedmoor", Num("float", 140), "G7")>>

\* Faulty variant of add_custom_ammunition: an entry of the same name is
\* replaced.
add_custom_ammunition_replace(ammo_data, ammo) ==
    IF \E i \in 1..Len(ammo_data) : ammo_data[i].name = ammo.name
    THEN [i \in 1..Len(ammo_data) |->
            IF ammo_data[i].name = ammo.name THEN ammo ELSE ammo_data[i]]
    ELSE Append(ammo_data, ammo)

\* AmmunitionDatabase.add_custom_ammunition: self.ammo_data.append(ammo)
add_custom_ammunition(ammo_data, ammo) == Append(ammo_data, ammo)

\* round(a / b): the nearest integer, a tie going to the even one
round(a, b) ==
    LET n == IF b < 0 THEN -a ELSE a
        d == Abs(b)
        q == n \div d
        r == n % d
    IN  IF 2 * r < d THEN q
        ELSE IF 2 * r > d THEN q + 1
        ELSE IF q % 2 = 0 THEN q ELSE q + 1

\* Faulty variant of closest_point: of equally near points the last one wins.
closest_point_last(trajectory, distance) ==
    trajectory[CHOOSE i \in 1..Len(trajectory) :
        \A j \in 1..Len(trajectory) :
            LET di == Abs(trajectory[i].distance - distance)
                dj == Abs(trajectory[j].distance - distance)
            IN  IF j > i THEN di < dj ELSE di <= dj]

\* closest_point = min(result.trajectory, key=lambda p: abs(p.distance - distance)):
\* min() keeps the first of the items with the smallest key
closest_point(trajectory, distance) ==
    trajectory[CHOOSE i \in 1..Len(trajectory) :
        \A j \in 1..Len(trajectory) :
            LET di == Abs(trajectory[i].distance - distance)
                dj == Abs(trajectory[j].distance - distance)
            IN  IF j < i THEN di < dj ELSE di <= dj]

\* the dict calculate_come_ups stores under come_ups[distance].  (x / distance)
\* * 3437.75 of a length x in 1e-5 m is x * 13751 / (distance * 4000) in
\* 1e-2 MOA; a click is 0.25 MOA.  velocity is rounded to 0.1 m/s, energy to
\* 1 J, time_of_flight to 1e-3 s.
come_up(point, distance) ==
    [elevation_moa |-> round(point.drop * 13751, distance * 4000),
     windage_moa |-> round(point.windage * 13751, distance * 4000),
     elevation_clicks |-> round(point.drop * 13751, distance * 100000),
     windage_clicks |-> round(point.windage * 13751, distance * 100000),
     velocity |-> round(point.velocity, 100000),
     energy |-> round(point.energy, 100),
     time_of_flight |-> round(point.time, 1000)]

\* BallisticsCalculator.calculate_come_ups, from the dict come_ups built so
\* far: min() of an empty trajectory raises ValueError, the division by a
\* requested distance of 0 raises ZeroDivisionError
RECURSIVE calculate_come_ups(_, _, _)
calculate_come_ups(trajectory, distances, come_ups) ==
    IF distances = <<>> THEN [raised |-> "none", come_ups |-> come_ups]
    ELSE LET distance == Head(distances)
         IN  IF trajectory = <<>> THEN [raised |-> "ValueError", come_ups |-> come_ups]
             ELSE IF distance = 0 THEN [raised |-> "ZeroDivisionError", come_ups |-> come_ups]
             ELSE calculate_come_ups(trajectory, Tail(distances),
                     PutMap(come_ups, distance,
                            come_up(closest_point(trajectory, distance), distance)))

HALF_GRAVITY == 490332     \* 0.5 * 9.80665 m/s^2, in 1e-5 m/s^2

\* EnvironmentalData.air_density_ratio in 1e-5, at 15 degrees C, 1013.25 hPa
\* and altitude 0, where pressure_ratio, temp_ratio and altitude_factor are
\* 1: humidity_factor = 1 - 0.0065 * humidity / 100
air_density_ratio(humidity) == 100000 - (65 * humidity) \div 10

\* _calculate_basic_drop: 0.5 * 9.80665 * (distance / velocity) ** 2.  The
\* square does not depend on the sign of velocity; the second division is
\* ((a * distance) \div v), split so that the product stays in range.
_calculate_basic_drop(distance, velocity) ==
    LET v == Abs(velocity)
        a == (HALF_GRAVITY * distance) \div v
    IN  (a \div v) * distance + ((a % v) * distance) \div v

\* _find_zero_angle: atan(drop_at_zero / zero_distance), kept as the two
\* sides of the triangle
_find_zero_angle(muzzle_velocity, zero_distance) ==
    [rise |-> _calculate_basic_drop(zero_distance, muzzle_velocity), run |-> zero_distance]

\* mass_kg = ammo.bullet_weight * 0.00006479891, in 1e-6 kg
mass_kg(bullet_weight) == (bullet_weight * 6479891) \div 100000

\* 0.5 * mass_kg * velocity ** 2, in 1e-2 J
energy(mass, velocity) ==
    LET v == velocity \div 100000
    IN  (((v * v) \div 1000) * mass) \div 2000

\* distance / (initial_velocity * cos(launch_angle)), in 1e-6 s:
\* 1 / cos(angle) is 1 + tan(angle) ** 2 / 2 to the precision kept here
time_of_flight(distance, initial_velocity, launch_angle) ==
    LET v == Abs(initial_velocity)
        ms == distance * 1000
        micros == (ms \div v) * 1000 + ((ms % v) * 1000) \div v
        flat == IF initial_velocity < 0 THEN -micros ELSE micros
        byTan == ((flat \div 1000) * launch_angle.rise) \div (launch_angle.run * 100)
    IN  flat + (byTan * launch_angle.rise) \div (launch_angle.run * 200000)

\* _calculate_wind_drift: crosswind_component * time_of_flight * 0.5, where
\* crosswind_component = wind_speed * sin(radians(wind_direction)) is given
\* in m/s
_calculate_wind_drift(time, crosswind_component) ==
    (crosswind_component * time) \div 20

\* _calculate_point.  time_of_flight ** 2 is (distance / velocity) ** 2 times
\* 1 / cos(angle) ** 2 = 1 + tan(angle) ** 2, and tan(angle) = rise / run.
\* The environments of the model have wind_speed 0.0.
_calculate_point(distance, muzzle_velocity, bullet_weight, humidity, launch_angle) ==
    LET basic == _calculate_basic_drop(distance, muzzle_velocity)
        byTan == ((basic \div 100) * launch_angle.rise) \div (launch_angle.run * 1000)
        byTan2 == (byTan * launch_angle.rise) \div (launch_angle.run * 100000)
        gravity_drop == basic + byTan2
        launch_compensation == (distance * launch_angle.rise) \div launch_angle.run
        drop == gravity_drop - launch_compensation
        velocity_loss_factor == 1000000000 - distance * 3 * air_density_ratio(humidity)
        velocity == muzzle_velocity * (Max(300000000, velocity_loss_factor) \div 1000)
        time == time_of_flight(distance, muzzle_velocity, launch_angle)
    IN  TrajectoryPoint(distance, -drop, velocity, energy(mass_kg(bullet_weight), velocity),
                        time, _calculate_wind_drift(time, 0))

\* self.log_ballistics_calculation(...): LoggableMixin defines no such
\* method (it is a method of HuntProLogger), so the attribute lookup fails
log_ballistics_calculation == "AttributeError"

\* arguments given to the constructors
MaxNum == 1            \* largest number given to a constructor
MachMargin == 3       \* Mach numbers (in hundredths) tried beyond each end of a table
MaxDrop == 2          \* largest drop of a point of a trajectory given to _calculate_mpbr
MaxTrajectory == 3    \* longest trajectory given to _calculate_mpbr directly
MaxPoints == 22       \* points computed by one calculate_trajectory call
MaxSamples == 3       \* longest trajectory given to calculate_come_ups
MaxRequests == 2      \* longest list of distances given to calculate_come_ups
MaxAdds == 3          \* add_custom_ammunition calls on one AmmunitionDatabase
Numbers == {Num(ty, v) : ty \in {"int", "float"}, v \in 0..MaxNum}
Ammunitions ==
    {Ammunition(n, c, w, m) :
        n \in {"", "Test 308"}, c \in {"", ".308"}, w \in Numbers, m \in DragModelMembers}
Environments == {EnvironmentalData(x, Num("float", 50)) : x \in Numbers}
Profiles ==
    {BallisticProfile(n, a, e, z, "", c, u) :
        n \in {"p"}, a \in Ammunitions, e \in Environments, z \in {Num("int", 1)},
        c \in 0..1, u \in {1}}

----------------------------------------------------------------------------
(* State *)

NoObs ==
    [op |-> "init", raised |-> "none", name |-> 0, val |-> 0, src |-> <<>>,
     overwrite |-> FALSE, profiles |-> EmptyMap, deleted |-> FALSE,
     report |-> NoReport, outcome |-> NoOutcome, path |-> FALSE,
     preFile |-> Absent, preBackups |-> {}, preSec |-> 0, t |-> 0, run |-> <<>>]

Obs(op, raised, t) ==
    [NoObs EXCEPT !.op = op, !.raised = raised, !.preFile = file,
                  !.preBackups = backups, !.preSec = sec, !.t = t]

NoLoc == [profiles |-> EmptyMap, name |-> 0, t |-> 0]

Init ==
    /\ file = Absent
    /\ backups = {}
    /\ now = 0
    /\ sec = 0
    /\ constructed = FALSE
    /\ max_backups \in {Max(1, a) : a \in 0..MaxBackupsArg}   \* max(1, int(max_backups))
    /\ extWrites = 0
    /\ last = NoObs
    /\ pc = [w \in Writers |-> "idle"]
    /\ loc = [w \in Writers |-> NoLoc]
    /\ calc = NoCalc

----------------------------------------------------------------------------
(* Operations.  copyFails and writeFails say whether the operating system  *)
(* fails the copy of a file into the backup directory, and the write of    *)
(* profiles.json, with OSError.                                            *)

\* the one-second clock advances
Tick ==
    /\ sec < MaxSec
    /\ sec' = sec + 1
    /\ UNCHANGED <<file, backups, now, constructed, max_backups, extWrites, last, pc, loc, calc>>

\* another program (an editor, a sync tool, a restore) replaces profiles.json
ExternalWrite(f) ==
    /\ extWrites < MaxExt
    /\ now < MaxNow
    /\ file' = f
    /\ now' = now + 1
    /\ extWrites' = extWrites + 1
    /\ last' = Obs("external", "none", now + 1)
    /\ UNCHANGED <<backups, sec, constructed, max_backups, pc, loc, calc>>

\* BallisticProfileStorage.__init__
Construct(copyFails, writeFails) ==
    /\ now < MaxNow
    /\ LET t == now + 1
           m == _apply_migrations(file, backups, sec, t, copyFails, writeFails)
       IN  /\ file' = m.file
           /\ backups' = m.backups
           /\ now' = IF m.file # file THEN t ELSE now
           /\ constructed' = (constructed \/ m.raised = "none")
           /\ last' = [Obs("construct", m.raised, t) EXCEPT !.outcome = m.outcome]
    /\ UNCHANGED <<sec, max_backups, extWrites, pc, loc, calc>>

\* BallisticProfileStorage.load_profiles
LoadProfiles(copyFails) ==
    /\ constructed
    /\ LET L == load_profiles(file, backups, sec, now, copyFails)
       IN  /\ backups' = L.backups
           /\ last' = [Obs("load", L.raised, now) EXCEPT !.profiles = L.profiles]
    /\ UNCHANGED <<file, now, sec, constructed, max_backups, extWrites, pc, loc, calc>>

\* BallisticProfileStorage.save_profile, for a profile the caller has built
SaveProfile(n, v, copyFails, writeFails) ==
    /\ constructed
    /\ now < MaxNow
    /\ LET t == now + 1
           profile == [name |-> n, val |-> v, created_at |-> t, updated_at |-> t]
           L == load_profiles(file, backups, sec, t, copyFails)
           \* run: the contents of profiles.json before each save of the
           \* current run of consecutive saves that found the file present
           obs(r) == [Obs("save", r, t) EXCEPT !.name = n, !.val = v]
           run == IF exists(file) THEN Append(last.run, file) ELSE last.run
       IN  IF L.raised # "none"
           THEN /\ backups' = L.backups
                /\ last' = obs(L.raised)
                /\ UNCHANGED <<file, now>>
           ELSE \E w \in _write_profiles(file, L.backups, PutMap(L.profiles, n, touch(profile, t)),
                                         sec, t, max_backups, copyFails, writeFails) :
                /\ file' = w.file
                /\ backups' = w.backups
                /\ now' = t
                /\ last' = [obs(IF w.raised # "none" THEN w.raised ELSE log_info_DATA)
                                EXCEPT !.run = run]
    /\ UNCHANGED <<sec, constructed, max_backups, extWrites, pc, loc, calc>>

\* BallisticProfileStorage.delete_profile
DeleteProfile(n, copyFails, writeFails) ==
    /\ constructed
    /\ now < MaxNow
    /\ LET t == now + 1
           L == load_profiles(file, backups, sec, t, copyFails)
           obs(r, d) == [Obs("delete", r, t) EXCEPT !.name = n, !.deleted = d]
       IN  IF L.raised # "none" \/ n \notin DOMAIN L.profiles
           THEN /\ backups' = L.backups
                /\ last' = obs(L.raised, FALSE)
                /\ UNCHANGED <<file, now>>
           ELSE \E w \in _write_profiles(file, L.backups, DelMap(L.profiles, n),
                                         sec, t, max_backups, copyFails, writeFails) :
                /\ file' = w.file
                /\ backups' = w.backups
                /\ now' = t
                /\ last' = obs(IF w.raised # "none" THEN w.raised ELSE log_info_DATA, TRUE)
    /\ UNCHANGED <<sec, constructed, max_backups, extWrites, pc, loc, calc>>

\* BallisticProfileStorage.import_profiles
ImportProfiles(src, overwrite, copyFails, writeFails) ==
    /\ constructed
    /\ now < MaxNow
    /\ LET t == now + 1
           L == load_profiles(file, backups, sec, t, copyFails)
           I == ImportLoop(src, L.profiles, NoReport, overwrite, t)
           obs(r, rep) == [Obs("import", r, t) EXCEPT !.src = src, !.overwrite = overwrite,
                                                     !.report = rep]
       IN  IF L.raised # "none"
           THEN /\ backups' = L.backups
                /\ last' = obs(L.raised, NoReport)
                /\ UNCHANGED <<file, now>>
           ELSE IF I.raised # "none" \/ (I.report.imported = <<>> /\ I.report.overwritten = <<>>)
           THEN /\ backups' = L.backups
                /\ last' = obs(IF I.raised # "none" THEN I.raised ELSE log_info_DATA, I.report)
                /\ UNCHANGED <<file, now>>
           ELSE \E w \in _write_profiles(file, L.backups, I.existing,
                                         sec, t, max_backups, copyFails, writeFails) :
                /\ file' = w.file
                /\ backups' = w.backups
                /\ now' = t
                /\ last' = obs(IF w.raised # "none" THEN w.raised ELSE log_info_DATA, I.report)
    /\ UNCHANGED <<sec, constructed, max_backups, extWrites, pc, loc, calc>>

\* BallisticProfileStorage.create_backup
CreateBackup(copyFails) ==
    /\ constructed
    /\ \E nb \in _create_backup(backups, file, sec, max_backups, copyFails) :
        /\ backups' = nb
        /\ last' = [Obs("create_backup", "none", now) EXCEPT
                        !.path = (exists(file) /\ ~copyFails)]
    /\ UNCHANGED <<file, now, sec, constructed, max_backups, extWrites, pc, loc, calc>>

\* Next-state relation of one store used by one caller, for the given set
\* of operating system failures
Ops(F) ==
    \/ Tick
    \/ \E cf \in F, wf \in F : Construct(cf, wf)
    \/ \E cf \in F : LoadProfiles(cf)
    \/ \E n \in Names, v \in Vals, cf \in F, wf \in F : SaveProfile(n, v, cf, wf)
    \/ \E n \in Names, cf \in F, wf \in F : DeleteProfile(n, cf, wf)
    \/ \E src \in ImportSources, ow \in BOOLEAN, cf \in F, wf \in F :
            ImportProfiles(src, ow, cf, wf)
    \/ \E cf \in F : CreateBackup(cf)

\* no operating system failures; other programs may replace profiles.json
Next ==
    \/ Ops({FALSE})
    \/ \E f \in ExtFiles(now + 1) : ExternalWrite(f)

Spec == Init /\ [][Next]_vars

\* copies and writes may fail with OSError
NextFault == Ops(BOOLEAN)

SpecFault == Init /\ [][NextFault]_vars

----------------------------------------------------------------------------
(* Two callers saving at once.  Each writer w runs save_profile for a       *)
(* profile named w on its own storage object over the same directory; the  *)
(* steps are the file system calls of save_profile, in program order.      *)

InitConc ==
    /\ file = Absent
    /\ backups = {}
    /\ now = 0
    /\ sec = 0
    /\ constructed = TRUE
    /\ max_backups \in {Max(1, a) : a \in 0..MaxBackupsArg}
    /\ extWrites = 0
    /\ last = NoObs
    /\ pc = [w \in Writers |-> "idle"]
    /\ loc = [w \in Writers |-> NoLoc]
    /\ calc = NoCalc

\* load_profiles, then profile.touch() and profiles[profile.name] = profile
W_Load(w) ==
    /\ pc[w] = "idle"
    /\ LET t == now + 1
           profile == [name |-> w, val |-> 1, created_at |-> t, updated_at |-> t]
           L == load_profiles(file, backups, sec, t, FALSE)
       IN  /\ backups' = L.backups
           /\ now' = t
           /\ IF L.raised # "none"
              THEN /\ pc' = [pc EXCEPT ![w] = "raised"]
                   /\ loc' = loc
              ELSE /\ pc' = [pc EXCEPT ![w] = "loaded"]
                   /\ loc' = [loc EXCEPT ![w] =
                                [profiles |-> PutMap(L.profiles, w, touch(profile, t)),
                                 name |-> w, t |-> t]]
    /\ UNCHANGED <<file, sec, constructed, max_backups, extWrites, last, calc>>

\* _write_profiles up to and including _create_backup
W_Backup(w) ==
    /\ pc[w] = "loaded"
    /\ \E nb \in _create_backup(backups, file, sec, max_backups, FALSE) : backups' = nb
    /\ pc' = [pc EXCEPT ![w] = "backed"]
    /\ UNCHANGED <<file, now, sec, constructed, max_backups, extWrites, last, loc, calc>>

\* self.storage_file.open("w"): the file is created or truncated
W_Open(w) ==
    /\ pc[w] = "backed"
    /\ file' = Corrupt(now + 1)
    /\ now' = now + 1
    /\ pc' = [pc EXCEPT ![w] = "open"]
    /\ UNCHANGED <<backups, sec, constructed, max_backups, extWrites, last, loc, calc>>

\* json.dump and the close of the file, then log_info.  When the other
\* writer has written the file since this writer truncated it, this
\* writer's bytes land over the other's and the result may not be JSON.
W_Dump(w) ==
    /\ pc[w] = "open"
    /\ \/ file' = Payload(loc[w].profiles, now + 1)
       \/ /\ file.kind # "corrupt"
          /\ file' = Corrupt(now + 1)
    /\ now' = now + 1
    /\ pc' = [pc EXCEPT ![w] = "done"]
    /\ last' = [Obs("save", log_info_DATA, now + 1) EXCEPT !.name = w]
    /\ UNCHANGED <<backups, sec, constructed, max_backups, extWrites, loc, calc>>

NextConc ==
    \/ Tick
    \/ \E w \in Writers : W_Load(w)
    \/ \E w \in Writers : W_Backup(w)
    \/ \E w \in Writers : W_Open(w)
    \/ \E w \in Writers : W_Dump(w)

SpecConc == InitConc /\ [][NextConc]_vars

----------------------------------------------------------------------------
(* Properties *)

\* names of the profiles of a file
NamesIn(f) == {f.profiles[i].name : i \in 1..Len(f.profiles)}

\* a profile dict that to_dict(from_dict(.)) leaves as it is
IsNormalized(e) == e.ok /\ e.created_at # NoTime /\ e.updated_at # NoTime
AllNormalized(f) == \A i \in 1..Len(f.profiles) : IsNormalized(f.profiles[i])

\* some file of the backup directory holds exactly the content f
BackedUp(f) == \E b \in backups : b.content = f

\* the last operation wrote profiles.json
Wrote == file # last.preFile

\* C1: load_profiles on a profiles.json that is not valid JSON returns an
\* empty mapping, raises nothing, leaves profiles.json as it was and leaves
\* a copy of it named profiles-corrupted-<timestamp> in the backup directory.
C1_LoadCorruptQuarantines ==
    (last.op = "load" /\ last.preFile.kind = "corrupt") =>
        /\ last.raised = "none"
        /\ last.profiles = EmptyMap
        /\ file = last.preFile
        /\ \E b \in backups :
            /\ b.kind = "corrupted"
            /\ b.sec = last.preSec
            /\ b.content = last.preFile

C1_Witness ==
    /\ last.op = "load"
    /\ last.preFile.kind = "corrupt"
    /\ \E b \in backups : b.kind = "corrupted" /\ b.content = file
    /\ \E b \in backups : b.kind = "rotating"

\* C2: constructing the store over a profiles.json that is not valid JSON
\* raises nothing, preserves a corrupted copy and yields a usable store.
C2_ConstructCorruptDoesNotRaise ==
    (last.op = "construct" /\ last.preFile.kind = "corrupt") =>
        /\ last.raised = "none"
        /\ \E b \in backups : b.kind = "corrupted" /\ b.content = last.preFile

\* C3: a save_profile on an existing profiles.json leaves a backup holding
\* the file as it was just before the save, and after a run of consecutive
\* saves the pre-save content of each of the last max_backups saves is still
\* held by a backup file.
C3_SavesKeepPreviousStates ==
    (last.op = "save" /\ exists(last.preFile) /\ Wrote) =>
        /\ BackedUp(last.preFile)
        /\ \A i \in 1..Len(last.run) :
            i > Len(last.run) - max_backups => BackedUp(last.run[i])

\* C4: save_profile, delete_profile and import_profiles are atomic: after
\* the call either profiles.json is a complete document and a backup of the
\* prior file exists, or profiles.json is as it was before the call.
C4_MutationsAtomic ==
    (last.op \in {"save", "delete", "import"}) =>
        \/ file = last.preFile
        \/ /\ file.kind = "doc"
           /\ exists(last.preFile) => BackedUp(last.preFile)

\* C5: when two writers have both finished save_profile for profiles of
\* different names, profiles.json contains both profiles.
C5_NoLostUpdate ==
    (\A w \in Writers : pc[w] = "done") =>
        /\ file.kind = "doc"
        /\ Writers \subseteq NamesIn(file)

\* C6 as stated: constructing the store over a document whose version is the
\* target version rewrites nothing and adds no backup.
C6_OpenAtTargetVersionNoRewrite ==
    (/\ last.op = "construct"
     /\ last.preFile.kind = "doc"
     /\ last.preFile.version = SCHEMA_VERSION) =>
        /\ file = last.preFile
        /\ backups = last.preBackups

\* C6 as amended: constructing the store over a document whose version is the
\* target version and whose profile dicts are all in normalized form raises
\* nothing, rewrites nothing and adds no backup.
C6_OpenNormalizedNoRewrite ==
    (/\ last.op = "construct"
     /\ last.preFile.kind = "doc"
     /\ last.preFile.version = SCHEMA_VERSION
     /\ AllNormalized(last.preFile)) =>
        /\ last.raised = "none"
        /\ ~last.outcome.some
        /\ file = last.preFile
        /\ backups = last.preBackups

C6_Witness ==
    /\ last.op = "construct"
    /\ last.preFile.kind = "doc"
    /\ last.preFile.version = SCHEMA_VERSION
    /\ Len(last.preFile.profiles) > 0
    /\ AllNormalized(last.preFile)
    /\ backups # {}
    /\ file = last.preFile

\* C7: import_profiles with overwrite = False of a source holding one
\* profile whose name is already stored returns the report skipped = [name],
\* imported = [], overwritten = [], and changes neither profiles.json nor the
\* backup directory.
C7_ImportSkipsExisting ==
    (/\ last.op = "import"
     /\ ~last.overwrite
     /\ Len(last.src) = 1
     /\ last.preFile.kind = "doc"
     /\ AllNormalized(last.preFile)
     /\ last.src[1].ok
     /\ last.src[1].name \in NamesIn(last.preFile)) =>
        /\ last.raised = "none"
        /\ last.report = [imported |-> <<>>, skipped |-> <<last.src[1].name>>,
                          overwritten |-> <<>>]
        /\ file = last.preFile
        /\ backups = last.preBackups

\* index of the last source entry of a name
LastOf(src, n) == CHOOSE i \in 1..Len(src) :
                    src[i].name = n /\ \A j \in (i+1)..Len(src) : src[j].name # n
InSeq(x, q) == \E i \in 1..Len(q) : q[i] = x
Stored(f, n) == f.profiles[CHOOSE i \in 1..Len(f.profiles) : f.profiles[i].name = n]

\* what import_profiles(source, overwrite=True) leaves on disk and computes
\* as its report
C8_ImportOverwriteEffect ==
    /\ file.kind = "doc"
    /\ NamesIn(file) = NamesIn(last.preFile) \cup NamesIn([profiles |-> last.src])
    /\ \A n \in NamesIn([profiles |-> last.src]) :
        /\ Stored(file, n) = [last.src[LastOf(last.src, n)] EXCEPT !.updated_at = last.t]
        /\ n \in NamesIn(last.preFile) => InSeq(n, last.report.overwritten)
        /\ n \notin NamesIn(last.preFile) => InSeq(n, last.report.imported)
    /\ \A n \in NamesIn(last.preFile) \ NamesIn([profiles |-> last.src]) :
        Stored(file, n) = Stored(last.preFile, n)

\* C8: import_profiles with overwrite = True replaces every stored profile
\* whose name occurs in the source (all fields from the source, updated_at
\* refreshed) and reports it in overwritten, adds every profile of a new name
\* and reports it in imported, leaves every other stored profile unchanged,
\* and returns that report.
C8_ImportOverwrite ==
    (/\ last.op = "import"
     /\ last.overwrite
     /\ Len(last.src) > 0
     /\ \A i \in 1..Len(last.src) : last.src[i].ok
     /\ last.preFile.kind = "doc"
     /\ AllNormalized(last.preFile)) =>
        /\ C8_ImportOverwriteEffect
        /\ last.raised = "none"

\* C9: after a save_profile, delete_profile, import_profiles or create_backup
\* call the backup directory holds at most max_backups files, and every file
\* the call removed is no newer than every file it kept.
C9_BackupsBounded ==
    (last.op \in {"save", "delete", "import", "create_backup"}) =>
        /\ max_backups >= 1
        /\ Cardinality(backups) <= max_backups
        /\ \A gone \in last.preBackups :
            (\A b \in backups : BackupName(b) # BackupName(gone)) =>
                \A kept \in backups : gone.content.mtime <= kept.content.mtime

\* C10: migrating a bare JSON list returns an outcome with previous_version 0
\* and new_version the target version, leaves a backup holding the original
\* list, and leaves a document of the target version with migrated_at,
\* migrated_from_version 0 and one normalized profile (timestamps filled in)
\* per legacy entry, in the order of the list.
C10_MigrateLegacyList ==
    (last.op = "construct" /\ last.preFile.kind = "list") =>
        /\ last.outcome = MigrationOutcome(0, SCHEMA_VERSION, TRUE)
        /\ \E b \in backups :
            /\ b.kind = "migration"
            /\ b.ver = 0
            /\ b.content = last.preFile
        /\ file.kind = "doc"
        /\ file.version = SCHEMA_VERSION
        /\ file.migrated_at = last.t
        /\ file.migrated_from_version = 0
        /\ Len(file.profiles) = Len(last.preFile.profiles)
        /\ \A i \in 1..Len(file.profiles) :
            /\ file.profiles[i].name = last.preFile.profiles[i].name
            /\ file.profiles[i].val = last.preFile.profiles[i].val
            /\ IsNormalized(file.profiles[i])

C10_Witness ==
    /\ last.op = "construct"
    /\ last.preFile.kind = "list"
    /\ Len(last.preFile.profiles) = MaxLen
    /\ \E i \in 1..Len(last.preFile.profiles) : ~IsNormalized(last.preFile.profiles[i])
    /\ file.kind = "doc"

----------------------------------------------------------------------------
(* Properties of the store, continued *)

OneMalformed(f) ==
    /\ f.kind = "doc"
    /\ Cardinality({i \in 1..Len(f.profiles) : ~f.profiles[i].ok}) = 1
    /\ \E i \in 1..Len(f.profiles) : f.profiles[i].ok

\* C12: opening a store over a document with one malformed profile dict
\* among valid ones raises nothing, neither in the constructor nor in
\* load_profiles, and load_profiles returns exactly the valid profiles.
C12_OpenSkipsMalformed ==
    /\ (last.op = "construct" /\ OneMalformed(last.preFile)) => last.raised = "none"
    /\ (last.op = "load" /\ OneMalformed(last.preFile)) =>
            /\ last.raised = "none"
            /\ DOMAIN last.profiles =
                 {last.preFile.profiles[i].name :
                    i \in {j \in 1..Len(last.preFile.profiles) : last.preFile.profiles[j].ok}}

\* the profiles list of the file is in ascending order of name
SortedByName(f) ==
    \A i \in 1..Len(f.profiles) : \A j \in 1..Len(f.profiles) :
        i < j => f.profiles[i].name <= f.profiles[j].name

\* C13: whenever save_profile, delete_profile, import_profiles or the
\* constructor has written the profile document, its profiles list is in
\* ascending order of name.
C13_WritesSorted ==
    (/\ last.op \in {"save", "delete", "import", "construct"}
     /\ Wrote
     /\ file.kind = "doc") => SortedByName(file)

\* what delete_profile(name) does to the disk and would return
C15_DeleteEffect ==
    IF last.name \notin NamesIn(last.preFile)
    THEN /\ ~last.deleted
         /\ file = last.preFile
         /\ backups = last.preBackups
    ELSE /\ last.deleted
         /\ file.kind = "doc"
         /\ NamesIn(file) = NamesIn(last.preFile) \ {last.name}
         /\ \A n \in NamesIn(file) : Stored(file, n) = Stored(last.preFile, n)

\* C15: delete_profile(name) on a readable store returns False and changes
\* neither profiles.json nor the backup directory when the name is not
\* stored; otherwise it returns True, removes that profile and leaves every
\* other stored profile as it was.
C15_Delete ==
    (/\ last.op = "delete"
     /\ last.preFile.kind \in {"absent", "doc"}
     /\ AllNormalized(last.preFile)) =>
        /\ C15_DeleteEffect
        /\ last.raised = "none"

----------------------------------------------------------------------------
(* Calls on the dataclasses and the calculator *)

\* no call has been made yet: a behaviour makes one call, on arguments
\* drawn from the sets below
CalcIdle == calc.op = "none"

StoreUnchanged ==
    UNCHANGED <<file, backups, now, sec, constructed, max_backups, extWrites, last, pc, loc>>

\* BallisticProfile.from_dict(p.to_dict()) at a time later than p's timestamps
RoundTrip(p) ==
    /\ CalcIdle
    /\ LET d == BallisticProfile_to_dict(p)
           r == BallisticProfile_from_dict(d, 2)
       IN  calc' = [op |-> "round_trip", p |-> p, d |-> d,
                    raised |-> r.raised, q |-> r.value]
    /\ StoreUnchanged

\* BallisticsCalculator.get_drag_coefficient(mach, drag_model)
DragCoefficient(mach, drag_model) ==
    /\ CalcIdle
    /\ calc' = [op |-> "drag", mach |-> mach, drag_model |-> drag_model,
                coefficient |-> get_drag_coefficient(mach, drag_model)]
    /\ StoreUnchanged

\* trajectories as calculate_trajectory builds them: the distances ascend
\* from 0 by the step size; the drops are arbitrary
Trajectories ==
    UNION {[1..n -> (-MaxDrop)..MaxDrop] : n \in 0..MaxTrajectory}
Diameters == (-1)..(2 * MaxDrop + 1)

\* BallisticsCalculator._calculate_mpbr on one trajectory, for every diameter
Mpbr(drops) ==
    /\ CalcIdle
    /\ LET trajectory == [i \in 1..Len(drops) |-> TrajectoryPoint(i - 1, drops[i], 0, 0, 0, 0)]
       IN  calc' = [op |-> "mpbr", trajectory |-> trajectory,
                    mpbr |-> [d \in Diameters |-> _calculate_mpbr(trajectory, d)]]
    /\ StoreUnchanged

\* points of a result given to calculate_come_ups: at 0, 50 and 100 m, with
\* different values in every field
Samples ==
    {TrajectoryPoint(0, 0, 800000000, 311035, 0, 0),
     TrajectoryPoint(50, 1915, 788039000, 301804, 62500, 300),
     TrajectoryPoint(100, -4, 776078000, 292711, 125000, 1200)}
SampleTrajectories == UNION {[1..n -> Samples] : n \in 0..MaxSamples}
RequestedDistances == {-50, 0, 25, 75, 200}
Requests == UNION {[1..n -> RequestedDistances] : n \in 1..MaxRequests}

\* BallisticsCalculator.calculate_come_ups(result, distances)
ComeUps(trajectory, distances) ==
    /\ CalcIdle
    /\ LET r == calculate_come_ups(trajectory, distances, EmptyMap)
       IN  calc' = [op |-> "come_ups", trajectory |-> trajectory, distances |-> distances,
                    raised |-> r.raised, come_ups |-> r.come_ups]
    /\ StoreUnchanged

\* AmmunitionDatabase(): `added` records the arguments of the
\* add_custom_ammunition calls made on the object since
NewAmmunitionDatabase ==
    /\ CalcIdle
    /\ calc' = [op |-> "catalog", ammo_data |-> _load_default_ammunition, added |-> <<>>]
    /\ StoreUnchanged

\* AmmunitionDatabase.add_custom_ammunition(ammo)
AddCustomAmmunition(ammo) ==
    /\ calc.op = "catalog"
    /\ Len(calc.added) < MaxAdds
    /\ calc' = [calc EXCEPT !.ammo_data = add_custom_ammunition(@, ammo),
                            !.added = Append(@, ammo)]
    /\ StoreUnchanged

\* entries given to add_custom_ammunition: one named like two presets, two
\* named like each other
CustomAmmunitions ==
    {Ammunition("Federal Premium", ".270 Win", Num("float", 150), "G1"),
     Ammunition("Handload", ".308 Win", Num("float", 168), "G1"),
     Ammunition("Handload", ".308 Win", Num("float", 175), "G7")}

\* BallisticsCalculator.calculate_trajectory up to the while loop.  With
\* muzzle_velocity 0 the division in _calculate_basic_drop, called by
\* _find_zero_angle, raises ZeroDivisionError.
CalculateTrajectory(muzzle_velocity, bullet_weight, humidity, zero_distance, max_range, step_size, vital_zone_diameter) ==
    /\ CalcIdle
    /\ calc' = [op |-> "trajectory",
                pc |-> IF muzzle_velocity = 0 THEN "done" ELSE "loop",
                raised |-> IF muzzle_velocity = 0 THEN "ZeroDivisionError" ELSE "none",
                muzzle_velocity |-> muzzle_velocity, bullet_weight |-> bullet_weight,
                humidity |-> humidity,
                zero_distance |-> zero_distance, max_range |-> max_range,
                step_size |-> step_size, vital_zone_diameter |-> vital_zone_diameter,
                zero_angle |-> IF muzzle_velocity = 0 THEN [rise |-> 0, run |-> zero_distance]
                               ELSE _find_zero_angle(muzzle_velocity, zero_distance),
                x |-> 0, trajectory |-> <<>>, mpbr |-> 0]
    /\ StoreUnchanged

\* one pass of `while x <= max_range`
TrajectoryStep ==
    /\ calc.op = "trajectory"
    /\ calc.pc = "loop"
    /\ calc.x <= calc.max_range
    /\ Len(calc.trajectory) < MaxPoints
    /\ calc' = [calc EXCEPT
                  !.trajectory = Append(@, _calculate_point(calc.x, calc.muzzle_velocity,
                                                            calc.bullet_weight, calc.humidity,
                                                            calc.zero_angle)),
                  !.x = @ + calc.step_size]
    /\ StoreUnchanged

\* the loop has ended: _calculate_mpbr, BallisticsResult(...), then
\* log_ballistics_calculation, and `return result` if that returns
TrajectoryReturn ==
    /\ calc.op = "trajectory"
    /\ calc.pc = "loop"
    /\ ~(calc.x <= calc.max_range)
    /\ calc' = [calc EXCEPT
                  !.mpbr = _calculate_mpbr(calc.trajectory, calc.vital_zone_diameter),
                  !.raised = log_ballistics_calculation,
                  !.pc = "done"]
    /\ StoreUnchanged

----------------------------------------------------------------------------
(* AdaptiveBallisticAdvisor.  The class is imported by                     *)
(* src/tests/test_adaptive_ballistics.py from ballistics, which does not   *)
(* define it; it is modelled from section 4.8 of the specification.        *)
(* Numbers read from metrics are kept in hundredths.                       *)

\* SensorMetric(label, value) and SensorDiagnosticSnapshot(device_id, metrics)
SensorMetric(label, value) == [label |-> label, value |-> value]
SensorDiagnosticSnapshot(device_id, metrics) == [device_id |-> device_id, metrics |-> metrics]

Digits == {"0", "1", "2", "3", "4", "5", "6", "7", "8", "9"}
DigitVal(c) == CHOOSE d \in 0..9 : ToString(d) = c
NoValue == -1

\* the number a string of digits writes, NoValue if it is not one
RECURSIVE to_int(_)
to_int(t) ==
    IF t = "" THEN NoValue
    ELSE LET c == SubSeq(t, Len(t), Len(t))
             rest == SubSeq(t, 1, Len(t) - 1)
         IN  IF c \notin Digits THEN NoValue
             ELSE IF rest = "" THEN DigitVal(c)
             ELSE IF to_int(rest) = NoValue THEN NoValue
             ELSE 10 * to_int(rest) + DigitVal(c)

\* index of the first occurrence of the character c in t, 0 if none
Find(t, c) ==
    IF \E i \in 1..Len(t) : SubSeq(t, i, i) = c
    THEN CHOOSE i \in 1..Len(t) :
            /\ SubSeq(t, i, i) = c
            /\ \A j \in 1..(i - 1) : SubSeq(t, j, j) # c
    ELSE 0

\* an unsigned decimal with at most two decimals, in hundredths
parse_decimal(t) ==
    LET dot == Find(t, ".")
        whole == IF dot = 0 THEN t ELSE SubSeq(t, 1, dot - 1)
        frac == IF dot = 0 THEN "0" ELSE SubSeq(t, dot + 1, Len(t))
    IN  IF to_int(whole) = NoValue \/ to_int(frac) = NoValue \/ Len(frac) > 2
        THEN [ok |-> FALSE, value |-> 0]
        ELSE [ok |-> TRUE,
              value |-> 100 * to_int(whole)
                        + (IF Len(frac) = 1 THEN 10 * to_int(frac) ELSE to_int(frac))]

\* Faulty variant of parse_reading: a leading "+" is not accepted.
parse_reading_no_plus(text) ==
    LET space == Find(text, " ")
        number == IF space = 0 THEN text ELSE SubSeq(text, 1, space - 1)
        negative == number # "" /\ SubSeq(number, 1, 1) = "-"
        digits == IF negative THEN SubSeq(number, 2, Len(number)) ELSE number
        d == parse_decimal(digits)
    IN  [ok |-> d.ok, value |-> IF negative THEN -d.value ELSE d.value]

\* the typed value of a metric's text: an optional sign, a decimal number,
\* then the unit after a space ("6.4 m/s" -> 6.4, "+0.6 yd" -> 0.6)
parse_reading(text) ==
    LET space == Find(text, " ")
        number == IF space = 0 THEN text ELSE SubSeq(text, 1, space - 1)
        signed == number # "" /\ SubSeq(number, 1, 1) \in {"+", "-"}
        negative == signed /\ SubSeq(number, 1, 1) = "-"
        digits == IF signed THEN SubSeq(number, 2, Len(number)) ELSE number
        d == parse_decimal(digits)
    IN  [ok |-> d.ok, value |-> IF negative THEN -d.value ELSE d.value]

\* the text of a number of hundredths, as str() of the float writes it
format_value(v) ==
    LET a == Abs(v)
        frac == a % 100
    IN  (IF v < 0 THEN "-" ELSE "") \o ToString(a \div 100) \o "." \o
        (IF frac % 10 = 0 THEN ToString(frac \div 10)
         ELSE IF frac < 10 THEN "0" \o ToString(frac)
         ELSE ToString(frac))

\* sub occurs in text
Contains(text, sub) ==
    \E i \in 1..(Len(text) - Len(sub) + 1) : SubSeq(text, i, i + Len(sub) - 1) = sub

\* the field of the sensor context a metric label feeds, "" for a label the
\* advisor does not know
field_of(label) ==
    CASE label = "Ambient temperature" -> "temperature"
      [] label = "Relative humidity" -> "humidity"
      [] label = "Wind speed" -> "wind_speed"
      [] label = "Wind direction" -> "wind_direction"
      [] label = "Barometric pressure" -> "pressure"
      [] label = "Range offset" -> "range_offset"
      [] label = "Inclination drift" -> "inclination_drift"
      [] OTHER -> ""

ContextFields ==
    {"temperature", "humidity", "wind_speed", "wind_direction", "pressure",
     "range_offset", "inclination_drift"}

\* a field of the sensor context: unknown, or the latest value with the
\* text it was read from
Unknown == [known |-> FALSE, value |-> 0, text |-> ""]
Reading(value, text) == [known |-> TRUE, value |-> value, text |-> text]

\* clear_sensor_context(): every field unknown
clear_sensor_context == [f \in ContextFields |-> Unknown]

\* ingest_sensor_snapshot(snapshot), from the context built so far: the most
\* recent value per field; unknown labels and unreadable values are ignored
RECURSIVE ingest_sensor_snapshot(_, _)
ingest_sensor_snapshot(context, metrics) ==
    IF metrics = <<>> THEN context
    ELSE LET metric == Head(metrics)
             field == field_of(metric.label)
             r == parse_reading(metric.value)
         IN  ingest_sensor_snapshot(
                IF field = "" \/ ~r.ok THEN context
                ELSE [context EXCEPT ![field] = Reading(r.value, metric.value)],
                Tail(metrics))

\* thresholds of generate_suggestions
CROSSWIND_THRESHOLD == 300        \* 3 m/s
RANGE_OFFSET_TOLERANCE == 50      \* 0.5 units
INCLINATION_TOLERANCE == 50       \* 0.5 degrees

\* sin(radians(direction)) in 1e-4, for the wind directions of the model
sin(direction) ==
    CASE direction = 0 -> 0
      [] direction = 9000 -> 10000
      [] direction = 9500 -> 9962
      [] direction = 18000 -> 0
      [] direction = 27000 -> -10000

\* cos(radians(direction)) in 1e-4
cos(direction) ==
    CASE direction = 0 -> 10000
      [] direction = 9000 -> 0
      [] direction = 9500 -> -872
      [] direction = 18000 -> -10000
      [] direction = 27000 -> 0

\* Faulty variant of crosswind_component: the component along the line of
\* fire is taken.
crosswind_component_along(wind_speed, wind_direction) ==
    round(wind_speed * cos(wind_direction), 10000)

\* wind speed x sin(wind direction), in hundredths of m/s
crosswind_component(wind_speed, wind_direction) ==
    round(wind_speed * sin(wind_direction), 10000)

Suggestion(focus, severity, recommendation, justification) ==
    [focus |-> focus, severity |-> severity, recommendation |-> recommendation,
     justification |-> justification]

Sign(x) == IF x > 0 THEN 1 ELSE IF x < 0 THEN -1 ELSE 0

\* Crosswind: when the sensed crosswind differs from the baseline's; warning
\* at or above the threshold or when the drift changes sign.  The hold is
\* the drift at the zero distance, crosswind * time * 0.5, in MOA.
crosswind_suggestion(result, baseline, context) ==
    IF ~context["wind_speed"].known THEN <<>>
    ELSE LET direction == IF context["wind_direction"].known
                          THEN context["wind_direction"].value
                          ELSE baseline.wind_direction
             sensed == crosswind_component(context["wind_speed"].value, direction)
             base == crosswind_component(baseline.wind_speed, baseline.wind_direction)
             drift == (sensed * 10 * (result.time \div 1000)) \div 2000
             moa == round(drift * 343775, result.zero_distance * 1000)
         IN  IF sensed = base THEN <<>>
             ELSE <<Suggestion("Crosswind",
                      IF Abs(sensed) >= CROSSWIND_THRESHOLD
                            \/ (Sign(base) # 0 /\ Sign(sensed) = -Sign(base))
                      THEN "warning" ELSE "info",
                      "Hold " \o format_value(moa) \o " MOA into the wind",
                      "Sensed wind " \o context["wind_speed"].text \o " differs from baseline "
                            \o format_value(baseline.wind_speed) \o " m/s")>>

\* Environment: names the fields that diverge from the baseline
environment_suggestion(baseline, context) ==
    LET diverges(f) == context[f].known /\ context[f].value # baseline[f]
        names == (IF diverges("temperature") THEN "temperature " ELSE "")
                 \o (IF diverges("humidity") THEN "humidity " ELSE "")
                 \o (IF diverges("pressure") THEN "pressure " ELSE "")
    IN  IF names = "" THEN <<>>
        ELSE <<Suggestion("Environment", "info",
                 "Recompute the trajectory with the sensed conditions",
                 names \o "diverge from baseline; density change will shift drop")>>

\* Range Calibration: when the range offset exceeds the tolerance
range_suggestion(context) ==
    LET offset == context["range_offset"]
    IN  IF offset.known /\ Abs(offset.value) > RANGE_OFFSET_TOLERANCE
        THEN <<Suggestion("Range Calibration", "warning",
                 "Correct ranged distances by " \o format_value(Abs(offset.value)),
                 "Rangefinder reports range offset " \o offset.text)>>
        ELSE <<>>

\* Cant Error: when the inclination drift exceeds the tolerance
cant_suggestion(context) ==
    LET drift == context["inclination_drift"]
    IN  IF drift.known /\ Abs(drift.value) > INCLINATION_TOLERANCE
        THEN <<Suggestion("Cant Error", "warning",
                 "Level the rifle and recalibrate the inclinometer",
                 "Inclination drift " \o format_value(Abs(drift.value)) \o " deg")>>
        ELSE <<>>

\* generate_suggestions(result)
generate_suggestions(result, baseline, context) ==
    crosswind_suggestion(result, baseline, context)
        \o environment_suggestion(baseline, context)
        \o range_suggestion(context)
        \o cant_suggestion(context)

\* the baseline environments: that of the tests, without wind, and one with
\* the wind the weather meter reports
BaselineEnvironment(wind_speed, wind_direction) ==
    [temperature |-> 1500, pressure |-> 101325, humidity |-> 5500,
     wind_speed |-> wind_speed, wind_direction |-> wind_direction]
Baselines == {BaselineEnvironment(0, 0), BaselineEnvironment(640, 9500)}

\* the result of the tests: zero distance 100 m, 0.125 s to the zero distance
AdvisorResult == [zero_distance |-> 100, time |-> 125000]

\* the snapshots of the tests, and others with calm wind, wind at the
\* threshold from the left, a small offset, an unknown label and an
\* unreadable value
WeatherSnapshot ==
    SensorDiagnosticSnapshot("weather-1",
        <<SensorMetric("Ambient temperature", "8.5 degC"),
          SensorMetric("Relative humidity", "72 %"),
          SensorMetric("Wind speed", "6.4 m/s"),
          SensorMetric("Wind direction", "95 deg"),
          SensorMetric("Barometric pressure", "994.5 hPa")>>)
RangefinderSnapshot ==
    SensorDiagnosticSnapshot("rangefinder-1",
        <<SensorMetric("Range offset", "+0.6 yd"),
          SensorMetric("Inclination drift", "-0.72 deg")>>)
Snapshots ==
    {WeatherSnapshot, RangefinderSnapshot,
     SensorDiagnosticSnapshot("weather-2",
        <<SensorMetric("Wind speed", "2.0 m/s"), SensorMetric("Wind direction", "90 deg")>>),
     SensorDiagnosticSnapshot("weather-3",
        <<SensorMetric("Wind speed", "3.0 m/s"), SensorMetric("Wind direction", "270 deg")>>),
     SensorDiagnosticSnapshot("rangefinder-2",
        <<SensorMetric("Range offset", "-0.2 yd"), SensorMetric("Firmware", "2.1"),
          SensorMetric("Inclination drift", "n/a")>>)}

MaxIngests == 2       \* snapshots ingested since the sensor context was cleared

\* AdaptiveBallisticAdvisor(calculator) and update_baseline_environment(env).
\* `ingested` records the snapshots ingested since the context was cleared.
NewAdvisor(baseline) ==
    /\ CalcIdle
    /\ calc' = [op |-> "advisor", baseline |-> baseline, context |-> clear_sensor_context,
                ingested |-> <<>>, cleared |-> FALSE, generated |-> FALSE, suggestions |-> <<>>]
    /\ StoreUnchanged

ClearSensorContext ==
    /\ calc.op = "advisor"
    /\ calc' = [calc EXCEPT !.context = clear_sensor_context, !.ingested = <<>>,
                            !.cleared = TRUE, !.generated = FALSE, !.suggestions = <<>>]
    /\ StoreUnchanged

IngestSensorSnapshot(snapshot) ==
    /\ calc.op = "advisor"
    /\ Len(calc.ingested) < MaxIngests
    /\ calc' = [calc EXCEPT !.context = ingest_sensor_snapshot(@, snapshot.metrics),
                            !.ingested = Append(@, snapshot),
                            !.generated = FALSE, !.suggestions = <<>>]
    /\ StoreUnchanged

GenerateSuggestions ==
    /\ calc.op = "advisor"
    /\ calc' = [calc EXCEPT !.generated = TRUE,
                            !.suggestions = generate_suggestions(AdvisorResult, calc.baseline,
                                                                 calc.context)]
    /\ StoreUnchanged

----------------------------------------------------------------------------
MuzzleVelocities == {-800, 0, 800}
BulletWeights == {-150, 0, 150}
Humidities == {0, 50}
ZeroDistances == {100, 200}
MaxRanges == {-25, 0, 10, 100, 500, 3000}
StepSizes == {-25, 0, 25, 50, 250}
VitalZoneDiameters == {10000, 20000}

NextCalc ==
    \/ \E p \in Profiles : RoundTrip(p)
    \/ \E mach \in (-MachMargin)..(500 + MachMargin), m \in DragModelMembers :
            DragCoefficient(mach, m)
    \/ \E drops \in Trajectories : Mpbr(drops)
    \/ \E trajectory \in SampleTrajectories, distances \in Requests :
            ComeUps(trajectory, distances)
    \/ NewAmmunitionDatabase
    \/ \E baseline \in Baselines : NewAdvisor(baseline)
    \/ ClearSensorContext
    \/ \E snapshot \in Snapshots : IngestSensorSnapshot(snapshot)
    \/ GenerateSuggestions
    \/ \E ammo \in CustomAmmunitions : AddCustomAmmunition(ammo)
    \/ \E v \in MuzzleVelocities, w \in BulletWeights, h \in Humidities, z \in ZeroDistances,
          r \in MaxRanges, st \in StepSizes, d \in VitalZoneDiameters :
            CalculateTrajectory(v, w, h, z, r, st, d)
    \/ TrajectoryStep
    \/ TrajectoryReturn

SpecCalc == Init /\ [][NextCalc]_vars

\* C14: for every constructed profile p, BallisticProfile.from_dict(p.to_dict())
\* raises nothing and equals p in every field, timestamps included.
C14_RoundTrip ==
    calc.op = "round_trip" =>
        /\ calc.raised = "none"
        /\ BallisticProfileEq(calc.q, calc.p)

C14_Witness ==
    /\ calc.op = "round_trip"
    /\ calc.p.ammunition.name = " 1gr"
    /\ calc.p.ammunition.drag_model = "CUSTOM"
    /\ calc.p.environment.temperature.ty = "int"
    /\ calc.q # calc.p
    /\ calc.p.created_at # calc.p.updated_at

\* C16: calculate_trajectory called with step_size <= 0 ends at once with a
\* configuration error: it never enters its loop and never returns a result.
C16_StepSizeRejected ==
    (calc.op = "trajectory" /\ calc.step_size <= 0) =>
        /\ calc.pc = "done"
        /\ calc.raised = "ConfigurationError"

\* the call of C17 (800 m/s, standard environment, zero 100 m, range 500 m,
\* step 25 m) has ended
C17_Input ==
    /\ calc.op = "trajectory"
    /\ calc.pc = "done"
    /\ calc.muzzle_velocity = 800
    /\ calc.bullet_weight = 150
    /\ calc.humidity = 50
    /\ calc.zero_distance = 100
    /\ calc.max_range = 500
    /\ calc.step_size = 25

\* the trajectory has a sample at 100 m with |drop| < 0.05 m, and the
\* velocity falls from each sample to the next
C17_TrajectoryNumbers ==
    /\ \E i \in 1..Len(calc.trajectory) :
        /\ calc.trajectory[i].distance = 100
        /\ Abs(calc.trajectory[i].drop) < 5000
    /\ \A i \in 1..(Len(calc.trajectory) - 1) :
        calc.trajectory[i].velocity > calc.trajectory[i + 1].velocity

\* C17: for 800 m/s in the standard environment with zero_distance 100,
\* max_range 500 and step 25, calculate_trajectory returns a trajectory with
\* a sample at distance 100 whose |drop| is below 0.05 m and with strictly
\* decreasing velocity.
C17_ZeroedTrajectory ==
    C17_Input => (calc.raised = "none" /\ C17_TrajectoryNumbers)

\* C18: with 0 <= max_range < step_size, calculate_trajectory returns a
\* result whose trajectory is empty and whose max_point_blank_range is 0.
C18_ShortRangeEmpty ==
    (/\ calc.op = "trajectory"
     /\ calc.pc = "done"
     /\ calc.step_size > 0
     /\ 0 <= calc.max_range
     /\ calc.max_range < calc.step_size) =>
        /\ calc.raised = "none"
        /\ calc.trajectory = <<>>
        /\ calc.mpbr = 0

\* C19: for G1 and G7, get_drag_coefficient returns the coefficient of the
\* first table row for every Mach number at or below the first row's, and
\* that of the last row for every Mach number at or above the last row's.
C19_DragClamped ==
    (calc.op = "drag" /\ calc.drag_model \in {"G1", "G7"}) =>
        LET table == drag_tables[calc.drag_model]
        IN  /\ calc.mach <= table[1][1] => calc.coefficient = table[1][2] * 100
            /\ calc.mach >= table[Len(table)][1] =>
                    calc.coefficient = table[Len(table)][2] * 100

C19_Witness ==
    /\ calc.op = "drag"
    /\ calc.drag_model = "G7"
    /\ calc.mach > g7_table[Len(g7_table)][1]
    /\ calc.coefficient = 504000

\* C20: for one trajectory, the maximum point blank range does not decrease
\* when vital_zone_diameter grows.
C20_MpbrMonotone ==
    calc.op = "mpbr" =>
        \A d1 \in Diameters : \A d2 \in Diameters :
            d1 <= d2 => calc.mpbr[d1] <= calc.mpbr[d2]

C20_Witness ==
    /\ calc.op = "mpbr"
    /\ Len(calc.trajectory) = MaxTrajectory
    /\ calc.mpbr[0] = 0
    /\ \E d1 \in Diameters : \E d2 \in Diameters :
        d1 < d2 /\ 0 < calc.mpbr[d1] /\ calc.mpbr[d1] < calc.mpbr[d2]

\* the dict stored for a requested distance is the one computed from the
\* trajectory's point of index i
UsesSample(i, distance) ==
    LET point == calc.trajectory[i]
        entry == calc.come_ups[distance]
    IN  /\ entry.velocity = round(point.velocity, 100000)
        /\ entry.energy = round(point.energy, 100)
        /\ entry.time_of_flight = round(point.time, 1000)
        /\ entry.elevation_moa = round(point.drop * 13751, distance * 4000)
        /\ entry.windage_moa = round(point.windage * 13751, distance * 4000)

\* the requested distance is at or beyond the largest sample distance, or at
\* or before the smallest, and point i is such an endpoint
Endpoint(i, distance) ==
    \/ \A j \in 1..Len(calc.trajectory) :
            /\ calc.trajectory[j].distance <= calc.trajectory[i].distance
            /\ calc.trajectory[i].distance <= distance
    \/ \A j \in 1..Len(calc.trajectory) :
            /\ calc.trajectory[j].distance >= calc.trajectory[i].distance
            /\ calc.trajectory[i].distance >= distance

\* C21: every come-up that calculate_come_ups computes for a requested
\* distance is taken from the sample whose distance is nearest to it, from
\* the first such sample of the trajectory when several are equally near,
\* and so from an endpoint sample for a distance outside the sampled range;
\* the call computes one for every requested distance other than 0 when the
\* trajectory has a sample.
C21_ComeUpsNearestSample ==
    calc.op = "come_ups" =>
        /\ \A distance \in DOMAIN calc.come_ups :
            \E i \in 1..Len(calc.trajectory) :
                /\ UsesSample(i, distance)
                /\ \A j \in 1..Len(calc.trajectory) :
                    LET di == Abs(calc.trajectory[i].distance - distance)
                        dj == Abs(calc.trajectory[j].distance - distance)
                    IN  /\ di <= dj
                        /\ (di = dj /\ j < i) => calc.trajectory[j] = calc.trajectory[i]
                /\ (\E e \in 1..Len(calc.trajectory) : Endpoint(e, distance)) =>
                        Endpoint(i, distance)
        /\ (calc.trajectory # <<>> /\ \A k \in 1..Len(calc.distances) : calc.distances[k] # 0) =>
                /\ calc.raised = "none"
                /\ DOMAIN calc.come_ups = {calc.distances[k] : k \in 1..Len(calc.distances)}

\* a tie (25 m between the samples at 50 m and 0 m, the farther one first)
\* and a distance beyond the last sample, in one call
C21_Witness ==
    /\ calc.op = "come_ups"
    /\ calc.raised = "none"
    /\ Len(calc.trajectory) = MaxSamples
    /\ calc.trajectory[1].distance = 50
    /\ calc.trajectory[2].distance = 0
    /\ calc.trajectory[Len(calc.trajectory)].distance = 100
    /\ calc.distances = <<25, 200>>
    /\ calc.come_ups[25].velocity = 7880
    /\ calc.come_ups[200].velocity = 7761

\* C22: an Ammunition whose bullet weight or muzzle velocity is not positive
\* is rejected with an error: Ammunition.from_dict raises on such a stored
\* dict, and calculate_trajectory raises before it computes any sample.
C22_NonPositiveRejected ==
    /\ (calc.op = "round_trip" /\ calc.d.ammunition.bullet_weight.v <= 0) =>
            calc.raised # "none"
    /\ (calc.op = "trajectory" /\ (calc.bullet_weight <= 0 \/ calc.muzzle_velocity <= 0)) =>
            /\ calc.pc = "done"
            /\ calc.raised # "none"
            /\ calc.trajectory = <<>>

\* C23: after any sequence of add_custom_ammunition calls the catalog holds
\* the 14 presets in their positions, followed by every added entry in the
\* order of the calls, entries of an already present name included; its
\* size is 14 plus the number of calls.
C23_CatalogAppendOnly ==
    calc.op = "catalog" =>
        /\ Len(calc.ammo_data) = 14 + Len(calc.added)
        /\ \A i \in 1..14 : calc.ammo_data[i] = _load_default_ammunition[i]
        /\ \A i \in 1..Len(calc.added) : calc.ammo_data[14 + i] = calc.added[i]

C23_Witness ==
    /\ calc.op = "catalog"
    /\ Len(calc.added) >= 3
    /\ \E i \in 1..14 : calc.ammo_data[i].name = calc.added[1].name
    /\ calc.added[2].name = calc.added[3].name
    /\ calc.added[2] # calc.added[3]
    /\ calc.ammo_data[16] # calc.ammo_data[17]

\* generate_suggestions has returned, for a context cleared and then fed
\* snapshots of which the last one has the given metric
LastIngested(label, value) ==
    /\ calc.op = "advisor"
    /\ calc.cleared
    /\ calc.generated
    /\ calc.ingested # <<>>
    /\ LET metrics == calc.ingested[Len(calc.ingested)].metrics
       IN  \E k \in 1..Len(metrics) : metrics[k] = SensorMetric(label, value)

\* C24: after clear_sensor_context and the ingestion of a snapshot whose
\* "Range offset" metric is "+0.6 yd", generate_suggestions returns a
\* suggestion with focus "Range Calibration" and severity "warning" whose
\* recommendation contains "0.6".
C24_RangeCalibration ==
    LastIngested("Range offset", "+0.6 yd") =>
        \E k \in 1..Len(calc.suggestions) :
            /\ calc.suggestions[k].focus = "Range Calibration"
            /\ calc.suggestions[k].severity = "warning"
            /\ Contains(calc.suggestions[k].recommendation, "0.6")

C24_Witness ==
    /\ LastIngested("Range offset", "+0.6 yd")
    /\ calc.ingested = <<RangefinderSnapshot>>
    /\ calc.context["range_offset"].value = 60
    /\ \E k \in 1..Len(calc.suggestions) : calc.suggestions[k].focus = "Range Calibration"

\* the suggestions hold a Crosswind suggestion of severity warning
CrosswindWarning(k) ==
    /\ calc.suggestions[k].focus = "Crosswind"
    /\ calc.suggestions[k].severity = "warning"

\* C25: with a baseline without wind, after the ingestion of a snapshot
\* reporting wind speed 6.4 m/s at 95 deg, generate_suggestions returns a
\* Crosswind suggestion of severity "warning" whose recommendation is in MOA
\* and whose justification cites "6.4 m/s"; and whenever the sensed wind
\* speed times sin(direction) is 3 m/s or more in magnitude, it returns a
\* Crosswind suggestion of severity "warning".
C25_CrosswindWarning ==
    (calc.op = "advisor" /\ calc.baseline.wind_speed = 0) =>
        /\ (LastIngested("Wind speed", "6.4 m/s") /\ LastIngested("Wind direction", "95 deg")) =>
                \E k \in 1..Len(calc.suggestions) :
                    /\ CrosswindWarning(k)
                    /\ Contains(calc.suggestions[k].recommendation, "MOA")
                    /\ Contains(calc.suggestions[k].justification, "6.4 m/s")
        /\ (/\ calc.generated
            /\ calc.context["wind_speed"].known
            /\ calc.context["wind_direction"].known
            /\ Abs(calc.context["wind_speed"].value * sin(calc.context["wind_direction"].value))
                    >= 3000000) =>
                \E k \in 1..Len(calc.suggestions) : CrosswindWarning(k)

C25_Witness ==
    /\ LastIngested("Wind speed", "6.4 m/s")
    /\ calc.ingested = <<WeatherSnapshot>>
    /\ calc.baseline.wind_speed = 0
    /\ calc.context["wind_speed"].value = 640
    /\ calc.context["wind_direction"].value = 9500
    /\ \E k \in 1..Len(calc.suggestions) : CrosswindWarning(k)

\* a calculate_trajectory call on an Ammunition with positive bullet weight
\* and muzzle velocity, with step_size > 0 and max_range >= 0, has ended
ValidCallDone ==
    /\ calc.op = "trajectory"
    /\ calc.pc = "done"
    /\ calc.muzzle_velocity > 0
    /\ calc.bullet_weight > 0
    /\ calc.step_size > 0
    /\ calc.max_range >= 0

\* the samples are at 0, step_size, 2 * step_size, ... up to the largest
\* multiple of step_size that does not exceed max_range
C26_Distances ==
    /\ Len(calc.trajectory) = calc.max_range \div calc.step_size + 1
    /\ \A i \in 1..Len(calc.trajectory) :
            calc.trajectory[i].distance = (i - 1) * calc.step_size

\* C26: for step_size > 0 and max_range >= 0, calculate_trajectory ends by
\* returning a result whose samples are at the distances 0, step_size,
\* 2 * step_size, ... up to the largest one not exceeding max_range, each
\* once and in increasing order.
C26_ReturnsSteppedSamples ==
    ValidCallDone => (calc.raised = "none" /\ C26_Distances)

\* C27: when the maximum point blank range R computed for a trajectory is
\* positive, every sample at a distance up to R has |drop| <=
\* vital_zone_diameter / 2.
C27_InsideZoneUpToMpbr ==
    (ValidCallDone /\ calc.mpbr > 0) =>
        \A i \in 1..Len(calc.trajectory) :
            calc.trajectory[i].distance <= calc.mpbr =>
                2 * Abs(calc.trajectory[i].drop) <= calc.vital_zone_diameter

\* velocity >= 0.3 * muzzle velocity and energy >= 0 for every sample
C28_Floor ==
    \A i \in 1..Len(calc.trajectory) :
        /\ calc.trajectory[i].velocity >= 300000 * calc.muzzle_velocity
        /\ calc.trajectory[i].energy >= 0

\* C28: every sample that calculate_trajectory computes has velocity >=
\* 0.3 x muzzle velocity and energy >= 0.
C28_VelocityFloored ==
    calc.op = "trajectory" => C28_Floor

----------------------------------------------------------------------------
(* Properties of the store, the frame of a save and the other files of the *)
(* backup directory                                                        *)

\* the names load_profiles finds in the file: those of its well-formed entries
StoredNames(f) == {f.profiles[i].name : i \in {j \in 1..Len(f.profiles) : f.profiles[j].ok}}

\* the entry load_profiles keeps for a name: the last well-formed one
LastStored(f, n) ==
    f.profiles[CHOOSE i \in 1..Len(f.profiles) :
        /\ f.profiles[i].ok
        /\ f.profiles[i].name = n
        /\ \A j \in (i + 1)..Len(f.profiles) : ~(f.profiles[j].ok /\ f.profiles[j].name = n)]

\* profiles.json can be read as a profile document, or is not there
Readable(f) == f.kind \in {"absent", "doc", "nolist"}

\* C29: save_profile(p) on a readable store leaves a document that holds p
\* under p.name with updated_at refreshed, holds every name once, and holds
\* every other stored profile with the fields it had; the stored names are
\* then the ones stored before plus p.name, and after delete_profile(n) the
\* ones stored before minus n.
C29_SaveFrame ==
    /\ (last.op = "save" /\ Readable(last.preFile)) =>
            /\ file.kind = "doc"
            /\ StoredNames(file) = StoredNames(last.preFile) \cup {last.name}
            /\ \A i \in 1..Len(file.profiles) : \A j \in 1..Len(file.profiles) :
                    /\ file.profiles[i].ok
                    /\ file.profiles[i].name = file.profiles[j].name => i = j
            /\ Stored(file, last.name).val = last.val
            /\ Stored(file, last.name).updated_at = last.t
            /\ \A n \in StoredNames(last.preFile) \ {last.name} :
                    LET before == LastStored(last.preFile, n)
                        after == Stored(file, n)
                    IN  /\ after.val = before.val
                        /\ before.created_at # NoTime => after.created_at = before.created_at
                        /\ before.updated_at # NoTime => after.updated_at = before.updated_at
    /\ (last.op = "delete" /\ Readable(last.preFile)) =>
            StoredNames(file) = StoredNames(last.preFile) \ {last.name}

C29_Witness ==
    /\ last.op = "save"
    /\ last.preFile.kind = "doc"
    /\ StoredNames(last.preFile) = Names
    /\ last.name = 1
    /\ Stored(file, 1) # LastStored(last.preFile, 1)
    /\ Stored(file, 2) = LastStored(last.preFile, 2)

\* C30: a save, delete, import or manual backup removes no quarantined copy
\* of a corrupted store and no migration backup from the backup directory.
C30_OtherCopiesKept ==
    last.op \in {"save", "delete", "import", "create_backup"} =>
        \A b \in last.preBackups :
            b.kind \in {"corrupted", "migration"} =>
                \E kept \in backups : BackupName(kept) = BackupName(b)

====
